---- MODULE Spec2Model ----
(***************************************************************************)
(* Approval-gated task dispatch: the ApprovalManager of approval.py, the   *)
(* tool gate call_tool_with_approval, the parameter preprocessing of       *)
(* preprocessing.py and the batch dispatcher of agent.py.                  *)
(***************************************************************************)
EXTENDS Integers, Sequences, FiniteSets, TLC

(***************************************************************************)
(* Bounds of the model.                                                    *)
(***************************************************************************)
\* longest batch handed to Agent.process_tasks
MaxBatch == 2
\* worker threads of the ThreadPoolExecutor
max_workers == 2
\* client threads sharing one ApprovalManager, each calling
\* request_approval once
NumClients == 2
\* preprocessing functions applied one after the other to one input
MaxApplications == 2

(***************************************************************************)
(* JSON-like values (Dict[str, Any] of the type hints): a tag and a        *)
(* payload.  Strings are sequences of characters.                          *)
(***************************************************************************)
StrV(s) == [type |-> "str", val |-> s]
IntV(n) == [type |-> "int", val |-> n]
BoolV(b) == [type |-> "bool", val |-> b]
NullV == [type |-> "null", val |-> 0]
ListV(s) == [type |-> "list", val |-> s]
DictV(f) == [type |-> "dict", val |-> f]

\* isinstance(v, str)
IsInstanceStr(v) == v.type = "str"
\* isinstance(v, int): bool is a subclass of int
IsInstanceInt(v) == v.type \in {"int", "bool"}

(***************************************************************************)
(* Characters.  "SUP2" is U+00B2 (superscript two), "NBSP" is U+00A0.      *)
(***************************************************************************)
AsciiDigits == {"0", "1", "2", "3", "4", "5", "6", "7", "8", "9"}
Letters == {"a", "b", "c", "d", "e", "f", "h", "i", "l", "m", "n", "o", "p",
            "r", "s", "t", "v", "w", "x", "y", "H", "V", "W", "_"}
Whitespace == {" ", "\t", "\n", "NBSP"}
KeptPunctuation == {".", ",", "!", "?", "-"}
\* other characters: "@", ":", "/", "%", "#" and the like

\* the value int() gives one decimal digit
DigitValue(c) ==
    CASE c = "0" -> 0 [] c = "1" -> 1 [] c = "2" -> 2 [] c = "3" -> 3
      [] c = "4" -> 4 [] c = "5" -> 5 [] c = "6" -> 6 [] c = "7" -> 7
      [] c = "8" -> 8 [] c = "9" -> 9

\* str.isdigit() of one character
IsDigitChar(c) == c \in AsciiDigits \cup {"SUP2"}
\* \w of the re module on str patterns
IsWordChar(c) == c \in Letters \cup AsciiDigits \cup {"SUP2"}
\* \s of the re module on str patterns
IsSpaceChar(c) == c \in Whitespace

\* unicodedata.normalize('NFKD', c) of one character
NFKDChar(c) ==
    CASE c = "SUP2" -> <<"2">>
      [] c = "NBSP" -> <<" ">>
      [] OTHER -> <<c>>

RECURSIVE NFKD(_)
NFKD(s) == IF s = <<>> THEN <<>> ELSE NFKDChar(Head(s)) \o NFKD(Tail(s))

\* re.sub(r'\s+', ' ', s)
RECURSIVE CollapseWhitespace(_)
CollapseWhitespace(s) ==
    IF s = <<>> THEN <<>>
    ELSE IF IsSpaceChar(Head(s))
         THEN IF Len(s) > 1 /\ IsSpaceChar(s[2])
              THEN CollapseWhitespace(Tail(s))
              ELSE <<" ">> \o CollapseWhitespace(Tail(s))
         ELSE <<Head(s)>> \o CollapseWhitespace(Tail(s))

\* re.sub(r'[^\w\s.,!?-]', '', s)
RemoveSpecial(s) ==
    SelectSeq(s, LAMBDA c : IsWordChar(c) \/ IsSpaceChar(c) \/ c \in KeptPunctuation)

RECURSIVE LStrip(_)
LStrip(s) == IF s # <<>> /\ IsSpaceChar(Head(s)) THEN LStrip(Tail(s)) ELSE s

RECURSIVE RStrip(_)
RStrip(s) ==
    IF s # <<>> /\ IsSpaceChar(s[Len(s)]) THEN RStrip(SubSeq(s, 1, Len(s) - 1)) ELSE s

\* str.strip()
Strip(s) == RStrip(LStrip(s))

clean_text(text) == Strip(RemoveSpecial(CollapseWhitespace(NFKD(text))))

\* str.isdigit(): non-empty and every character a digit
IsDigit(s) == s # <<>> /\ \A i \in 1..Len(s) : IsDigitChar(s[i])

\* int(s) raises ValueError unless every character is a decimal digit
IntRaises(s) == \E i \in 1..Len(s) : s[i] \notin AsciiDigits

RECURSIVE ParseInt(_)
ParseInt(s) ==
    IF s = <<>> THEN 0 ELSE 10 * ParseInt(SubSeq(s, 1, Len(s) - 1)) + DigitValue(s[Len(s)])

\* str.lower() of one character and of a string
LowerChar(c) == CASE c = "H" -> "h" [] c = "V" -> "v" [] c = "W" -> "w" [] OTHER -> c
LowerStr(s) == [i \in 1..Len(s) |-> LowerChar(s[i])]

\* str.split() followed by ' '.join: words separated by single spaces
RECURSIVE JoinSplit(_)
JoinSplit(s) ==
    LET t == LStrip(s) IN
      IF t = <<>> THEN <<>>
      ELSE IF \E j \in 1..Len(t) : IsSpaceChar(t[j])
      THEN LET e == CHOOSE j \in 1..Len(t) :
                      IsSpaceChar(t[j]) /\ \A h \in 1..(j - 1) : ~IsSpaceChar(t[h])
                rest == JoinSplit(SubSeq(t, e, Len(t)))
           IN SubSeq(t, 1, e - 1) \o (IF rest = <<>> THEN <<>> ELSE <<" ">> \o rest)
      ELSE t

\* a clean_query that keeps the case of the letters
clean_query_keeps_case(query) ==
    Strip(JoinSplit([i \in 1..Len(query) |->
        IF IsWordChar(query[i]) \/ IsSpaceChar(query[i]) THEN query[i] ELSE " "]))

clean_query(query) ==
    Strip(JoinSplit([i \in 1..Len(query) |->
        LET c == LowerChar(query[i]) IN
          IF IsWordChar(c) \/ IsSpaceChar(c) THEN c ELSE " "]))

\* s[i..] starts with the word w
PrefixAt(s, i, w) ==
    /\ i + Len(w) - 1 <= Len(s)
    /\ \A j \in 1..Len(w) : s[i + j - 1] = w[j]

\* the last index of the run of \S characters that starts at index j
\* (j - 1 if there is none)
RECURSIVE NonSpaceEnd(_, _)
NonSpaceEnd(s, j) ==
    IF j <= Len(s) /\ ~IsSpaceChar(s[j]) THEN NonSpaceEnd(s, j + 1) ELSE j - 1

\* last index of a match of http\S+|www.\S+ starting at i, 0 if none
UrlMatchEnd(s, i) ==
    IF PrefixAt(s, i, <<"h", "t", "t", "p">>) /\ NonSpaceEnd(s, i + 4) >= i + 4
    THEN NonSpaceEnd(s, i + 4)
    ELSE IF /\ PrefixAt(s, i, <<"w", "w", "w">>)
            /\ i + 3 <= Len(s) /\ s[i + 3] # "\n"
            /\ NonSpaceEnd(s, i + 4) >= i + 4
    THEN NonSpaceEnd(s, i + 4)
    ELSE 0

\* last index of a match of \S+@\S+ starting at i, 0 if none
EmailMatchEnd(s, i) ==
    LET e == NonSpaceEnd(s, i) IN
      IF \E k \in (i + 1)..(e - 1) : s[k] = "@" THEN e ELSE 0

\* \b at the gap before index p
WordAt(s, p) == p >= 1 /\ p <= Len(s) /\ IsWordChar(s[p])
WordBoundary(s, p) == WordAt(s, p - 1) # WordAt(s, p)

\* \d of the re module: decimal digits only
RECURSIVE DecimalEnd(_, _)
DecimalEnd(s, j) ==
    IF j <= Len(s) /\ s[j] \in AsciiDigits THEN DecimalEnd(s, j + 1) ELSE j - 1

RECURSIVE SpaceEnd(_, _)
SpaceEnd(s, j) ==
    IF j <= Len(s) /\ IsSpaceChar(s[j]) THEN SpaceEnd(s, j + 1) ELSE j - 1

UnitWords ==
    { <<"y", "e", "a", "r">>, <<"m", "o", "n", "t", "h">>, <<"d", "a", "y">>,
      <<"d", "o", "l", "l", "a", "r">>, <<"p", "e", "r", "c", "e", "n", "t">>,
      <<"%">> }

\* (?:year|month|day|dollar|percent|%)s?\b matches at index p
UnitAt(s, p) ==
    \E u \in UnitWords :
      /\ PrefixAt(s, p, u)
      /\ \/ PrefixAt(s, p + Len(u), <<"s">>) /\ WordBoundary(s, p + Len(u) + 1)
         \/ WordBoundary(s, p + Len(u))

\* the lookahead (?!\s*(?:...)s?\b) fails at index p iff, after some of the
\* whitespace at p, a unit word matches
UnitFollows(s, p) == \E q \in p..(SpaceEnd(s, p) + 1) : UnitAt(s, q)

\* last index of a match of \b\d+\b(?!...) starting at i, 0 if none
NumberMatchEnd(s, i) ==
    LET e == DecimalEnd(s, i) IN
      IF /\ e >= i
         /\ WordBoundary(s, i)
         /\ WordBoundary(s, e + 1)
         /\ ~UnitFollows(s, e + 1)
      THEN e ELSE 0

\* re.sub(pattern, '', s) for the three patterns, scanning from index i
RECURSIVE RemoveUrls(_, _)
RemoveUrls(s, i) ==
    IF i > Len(s) THEN <<>>
    ELSE IF UrlMatchEnd(s, i) # 0 THEN RemoveUrls(s, UrlMatchEnd(s, i) + 1)
    ELSE <<s[i]>> \o RemoveUrls(s, i + 1)

RECURSIVE RemoveEmails(_, _)
RemoveEmails(s, i) ==
    IF i > Len(s) THEN <<>>
    ELSE IF EmailMatchEnd(s, i) # 0 THEN RemoveEmails(s, EmailMatchEnd(s, i) + 1)
    ELSE <<s[i]>> \o RemoveEmails(s, i + 1)

RECURSIVE RemoveNumbers(_, _)
RemoveNumbers(s, i) ==
    IF i > Len(s) THEN <<>>
    ELSE IF NumberMatchEnd(s, i) # 0 THEN RemoveNumbers(s, NumberMatchEnd(s, i) + 1)
    ELSE <<s[i]>> \o RemoveNumbers(s, i + 1)

preprocess_single_text(text) ==
    Strip(JoinSplit(
        RemoveNumbers(RemoveEmails(RemoveUrls(LowerStr(clean_text(text)), 1), 1), 1)))

\* preprocess_for_embedding of a string value or a list value
preprocess_for_embedding(text) ==
    IF text.type = "list"
    THEN ListV([i \in 1..Len(text.val) |-> StrV(preprocess_single_text(text.val[i].val))])
    ELSE StrV(preprocess_single_text(text.val))

\* clean_text raises TypeError on anything that is not a string
preprocess_for_embedding_raises(text) ==
    IF text.type = "list"
    THEN \E i \in 1..Len(text.val) : ~IsInstanceStr(text.val[i])
    ELSE ~IsInstanceStr(text)

(***************************************************************************)
(* validate_parameters: the cleaned copy of a parameter dictionary, and    *)
(* whether computing it raises (a value without .items(), or int() of a    *)
(* digit string that is not decimal).                                      *)
(***************************************************************************)
RECURSIVE validate_parameters_raises(_)
validate_parameters_raises(params) ==
    \/ params.type # "dict"
    \/ \E k \in DOMAIN params.val :
         LET value == params.val[k] IN
           \/ IsInstanceStr(value) /\ IsDigit(value.val) /\ IntRaises(value.val)
           \/ value.type = "dict" /\ validate_parameters_raises(value)
           \/ /\ value.type = "list"
              /\ \E i \in 1..Len(value.val) :
                   /\ value.val[i].type = "dict"
                   /\ validate_parameters_raises(value.val[i])

\* a cleaning that keeps only the string parameters, as filter_data does
validate_parameters_strings_only(params) ==
    DictV([k \in {x \in DOMAIN params.val : IsInstanceStr(params.val[x])} |->
             StrV(clean_text(params.val[k].val))])

RECURSIVE validate_parameters(_)
validate_parameters(params) ==
    DictV([k \in DOMAIN params.val |->
        LET value == params.val[k] IN
          IF IsInstanceStr(value) /\ IsDigit(value.val) THEN IntV(ParseInt(value.val))
          ELSE IF IsInstanceStr(value) THEN StrV(clean_text(value.val))
          ELSE IF value.type = "dict" THEN validate_parameters(value)
          ELSE IF value.type = "list"
               THEN ListV([i \in 1..Len(value.val) |->
                      LET item == value.val[i] IN
                        IF item.type = "dict" THEN validate_parameters(item)
                        ELSE IF IsInstanceStr(item) THEN StrV(clean_text(item.val))
                        ELSE item])
          ELSE value])

(***************************************************************************)
(* Configuration read by ApprovalManager._load_config and                  *)
(* Agent._load_config: a representative tool_config.json and               *)
(* model_config.json.  "noop" is an entry that carries no fields.          *)
(***************************************************************************)
tool_config ==
    [tools |->
        ("scrape_website" :>
            [approval_required |-> TRUE,
             params |-> [url |-> "string", max_depth |-> "integer"],
             description |-> "Scrape a website"])
     @@ ("fetch_calendar_events" :>
            [params |-> [calendar_id |-> "string", max_events |-> "integer"],
             description |-> "Fetch calendar events"])
     @@ ("web_scraper" :>
            [approval_required |-> TRUE,
             params |-> [url |-> "string", mode |-> "boolean"],
             description |-> "Scrape through the agent tool"])
     @@ ("noop" :> <<>>)]

model_config ==
    [models |->
        ("gpt-4" :>
            [temperature |-> 7, max_tokens |-> 100, top_p |-> 1,
             frequency_penalty |-> 0, presence_penalty |-> 0])]

\* tool names a caller may pass
ToolNames == DOMAIN tool_config.tools \cup {"unknown_tool"}

\* `not tool_info` after tool_config["tools"].get(tool_name): None or an
\* empty dictionary
NotToolInfo(tool_name) ==
    \/ tool_name \notin DOMAIN tool_config.tools
    \/ DOMAIN tool_config.tools[tool_name] = {}

Exc(type, message) == [kind |-> "raise", exc |-> type, message |-> message]
Ret(value) == [kind |-> "return", value |-> value]
NoOutcome == [kind |-> "none"]

NotFound(tool_name) ==
    Exc("ValueError", <<"Tool ", tool_name, " not found in configuration">>)

\* is_approval_required, for a tool_name that has a tool_info
is_approval_required(tool_name) ==
    LET tool_info == tool_config.tools[tool_name] IN
      IF "approval_required" \in DOMAIN tool_info
      THEN tool_info.approval_required ELSE FALSE

\* a type test that also knows the tag "boolean"
TypeMismatchTyped(param_type, value) ==
    \/ param_type = "string" /\ ~IsInstanceStr(value)
    \/ param_type = "integer" /\ ~IsInstanceInt(value)
    \/ param_type = "boolean" /\ value.type # "bool"

\* the type test of one schema entry of validate_params
TypeMismatch(param_type, value) ==
    \/ param_type = "string" /\ ~IsInstanceStr(value)
    \/ param_type = "integer" /\ ~IsInstanceInt(value)

\* validate_params, for a tool_name that has a tool_info and a dictionary
validate_params(tool_name, params) ==
    LET tool_info == tool_config.tools[tool_name]
        expected_params ==
            IF "params" \in DOMAIN tool_info THEN tool_info.params ELSE <<>>
    IN \A param_name \in DOMAIN expected_params :
         /\ param_name \in DOMAIN params.val
         /\ ~TypeMismatch(expected_params[param_name], params.val[param_name])

(***************************************************************************)
(* State.                                                                  *)
(***************************************************************************)
VARIABLES
    tasks,              \* the batch given to process_tasks (dicts mutated in place)
    batch,              \* position of process_tasks / run_agents_parallel
    results,            \* the list built from executor.map
    pc,                 \* position of each worker task or client thread
    call,               \* the gate or manager call a thread is executing
    request,            \* local variable `request` of request_approval
    answer,             \* the value get_user_approval returned to a thread
    typed,              \* the line input() last returned to a thread
    outcome,            \* what a thread's call returned or raised
    pending_approvals,  \* per ApprovalManager: tool name -> request
    requests,           \* the ApprovalRequest objects, by identity
    prompted,           \* requests shown on the console by get_user_approval
    tool_calls,         \* invocations of the tool collaborators
    model_calls,        \* invocations of the model collaborator
    last_op,            \* the last approve_request / reject_request of a client
    completed           \* the workers' futures, in the order they completed

vars == <<tasks, batch, results, pc, call, request, answer, typed, outcome,
          pending_approvals, requests, prompted, tool_calls, model_calls,
          last_op, completed>>

\* ApprovalStatus
PENDING == "PENDING"
APPROVED == "APPROVED"
REJECTED == "REJECTED"

\* the None that pending_approvals.get gives (requests are named by a
\* positive identity), and None as a returned value
NoRequest == 0
None == "None"
NoCall == [op |-> "none"]

(***************************************************************************)
(* ApprovalManager (approval.py).  A thread i executes a call recorded in  *)
(* call[i]; call[i].mgr is the ApprovalManager the call runs on.           *)
(***************************************************************************)
\* a store that keeps the request a tool name already has (setdefault)
PutIfAbsent(d, k, v) == [x \in DOMAIN d \cup {k} |-> IF x \in DOMAIN d THEN d[x] ELSE v]

\* d[k] = v on a dictionary
Put(d, k, v) == [x \in DOMAIN d \cup {k} |-> IF x = k THEN v ELSE d[x]]

\* self.pending_approvals.get(tool_name)
Lookup(m, tool_name) ==
    IF tool_name \in DOMAIN pending_approvals[m]
    THEN pending_approvals[m][tool_name] ELSE NoRequest

\* the threads of the run
Threads == DOMAIN pc

\* a worker's future completes when its task returns or raises
Completes(i) ==
    completed' = IF batch # "none" /\ pc'[i] = "done"
                 THEN Append(completed, i) ELSE completed

\* an approve_request that forgets the assignment
ApproveStatusUnset(old) == old

\* the status approve_request / reject_request assign
ApproveStatus(old) == APPROVED
RejectStatus(old) == REJECTED

\* an approve_request that approves every request made for the tool
approve_request_all(m, tool_name) ==
    [r \in DOMAIN requests |->
        IF requests[r].tool_name = tool_name
        THEN [requests[r] EXCEPT !.status = APPROVED] ELSE requests[r]]

\* approve_request / reject_request on manager m: the requests afterwards
approve_request(m, tool_name) ==
    [requests EXCEPT ![Lookup(m, tool_name)].status = ApproveStatus(@)]
reject_request(m, tool_name) ==
    [requests EXCEPT ![Lookup(m, tool_name)].status = RejectStatus(@)]

NoPending(tool_name) ==
    Exc("ValueError", <<"No pending approval for tool ", tool_name>>)

InvalidParameters(tool_name) ==
    Exc("ValueError", <<"Invalid parameters for tool ", tool_name>>)

\* `if not self.validate_params(tool_name, params)` of request_approval
ParamsRejectedNever(tool_name, params) == FALSE
ParamsRejected(tool_name, params) == ~validate_params(tool_name, params)

\* request_approval up to the store into pending_approvals
RequestApproval(i) ==
    /\ pc[i] = "request_approval"
    /\ LET tool_name == call[i].tool_name
           params == call[i].params
           m == call[i].mgr
           Raise(e) == /\ outcome' = [outcome EXCEPT ![i] = e]
                       /\ pc' = [pc EXCEPT ![i] = "done"]
                       /\ UNCHANGED <<requests, request, pending_approvals>>
       IN IF NotToolInfo(tool_name) THEN Raise(NotFound(tool_name))
          ELSE IF ParamsRejected(tool_name, params)
          THEN Raise(InvalidParameters(tool_name))
          ELSE IF "description" \notin DOMAIN tool_config.tools[tool_name]
          THEN Raise(Exc("KeyError", <<"description">>))
          ELSE /\ requests' = Append(requests,
                      [tool_name |-> tool_name,
                       params |-> params,
                       description |-> tool_config.tools[tool_name].description,
                       status |-> PENDING])
               /\ request' = [request EXCEPT ![i] = Len(requests) + 1]
               /\ pending_approvals' = [pending_approvals EXCEPT
                      ![m] = Put(@, tool_name, Len(requests) + 1)]
               /\ pc' = [pc EXCEPT ![i] = "prompt"]
               /\ UNCHANGED outcome
    /\ Completes(i)
    /\ UNCHANGED <<tasks, batch, results, call, answer, typed, prompted, tool_calls,
                   model_calls, last_op>>

\* get_user_approval: the three print calls
Prompt(i) ==
    /\ pc[i] = "prompt"
    /\ prompted' = prompted \cup {request[i]}
    /\ pc' = [pc EXCEPT ![i] = "input"]
    /\ UNCHANGED <<tasks, batch, results, call, request, answer, typed, outcome,
                   pending_approvals, requests, tool_calls, model_calls, last_op,
                   completed>>

\* what the human may type
Answers == {"y", "Y", "n", "N", "yes", ""}

\* an answer compared as it was typed
Unlowered(a) == a

\* str.lower()
Lower(a) == CASE a = "Y" -> "y" [] a = "N" -> "n" [] OTHER -> a

\* get_user_approval: one round of the input loop
Input(i) ==
    /\ pc[i] = "input"
    /\ \E a \in Answers :
         /\ typed' = [typed EXCEPT ![i] = a]
         /\ IF Lower(a) \in {"y", "n"}
            THEN /\ answer' = [answer EXCEPT ![i] = (Lower(a) = "y")]
                 /\ pc' = [pc EXCEPT ![i] = "decide"]
            ELSE /\ pc' = [pc EXCEPT ![i] = "retry"]
                 /\ UNCHANGED answer
    /\ UNCHANGED <<tasks, batch, results, call, request, outcome,
                   pending_approvals, requests, prompted, tool_calls, model_calls,
                   last_op, completed>>

\* get_user_approval: print("Please enter 'y' for yes or 'n' for no.")
Retry(i) ==
    /\ pc[i] = "retry"
    /\ pc' = [pc EXCEPT ![i] = "input"]
    /\ UNCHANGED <<tasks, batch, results, call, request, answer, typed, outcome,
                   pending_approvals, requests, prompted, tool_calls, model_calls,
                   last_op, completed>>

\* request_approval after get_user_approval: approve_request or
\* reject_request by tool name, then `return request`
Decide(i) ==
    /\ pc[i] = "decide"
    /\ LET tool_name == call[i].tool_name
           m == call[i].mgr
       IN IF Lookup(m, tool_name) = NoRequest
          THEN /\ outcome' = [outcome EXCEPT ![i] = NoPending(tool_name)]
               /\ pc' = [pc EXCEPT ![i] = "done"]
               /\ UNCHANGED requests
          ELSE /\ requests' = IF answer[i] THEN approve_request(m, tool_name)
                                           ELSE reject_request(m, tool_name)
               /\ outcome' = [outcome EXCEPT ![i] =
                      Ret([request |-> request[i],
                           status |-> requests'[request[i]].status])]
               /\ pc' = [pc EXCEPT ![i] =
                      IF call[i].op = "request_approval" THEN "done" ELSE "gate"]
    /\ Completes(i)
    /\ UNCHANGED <<tasks, batch, results, call, request, answer, typed,
                   pending_approvals, prompted, tool_calls, model_calls, last_op>>

(***************************************************************************)
(* Tool Invocation Gate: call_tool_with_approval.                          *)
(***************************************************************************)
SuccessEnvelope(result) == [status |-> "success", result |-> result]
ErrorEnvelope(message) == [status |-> "error", message |-> message]

\* is_approval_required written with .get(tool_name, {}): an unconfigured
\* tool counts as one that needs no approval
GateEntryDefaultsUnknown(tool_name) ==
    IF /\ tool_name \in DOMAIN tool_config.tools
       /\ "approval_required" \in DOMAIN tool_config.tools[tool_name]
       /\ tool_config.tools[tool_name].approval_required
    THEN "request_approval" ELSE "execute"

\* a gate that asks for approval of every configured tool
GateEntryAlwaysAsks(tool_name) ==
    IF NotToolInfo(tool_name) THEN "raise" ELSE "request_approval"

\* where call_tool_with_approval goes after is_approval_required(tool_name)
GateEntry(tool_name) ==
    IF NotToolInfo(tool_name) THEN "raise"
    ELSE IF is_approval_required(tool_name) THEN "request_approval"
    ELSE "execute"

\* a gate that stops only requests still pending
NotApprovedOnlyPending(status) == status = PENDING

\* request.status != ApprovalStatus.APPROVED
NotApproved(status) == status # APPROVED

\* a message that leaves the tool name out
NotApprovedMessageNoName(tool_name) == <<"Tool was not approved">>

\* f"Tool {tool_name} was not approved"
NotApprovedMessage(tool_name) == <<"Tool ", tool_name, " was not approved">>

\* call_tool_with_approval: the test of the status request_approval returned
GateCheck(i) ==
    /\ pc[i] = "gate"
    /\ IF NotApproved(requests[request[i]].status)
       THEN /\ outcome' = [outcome EXCEPT ![i] =
                   Ret(ErrorEnvelope(NotApprovedMessage(call[i].tool_name)))]
            /\ pc' = [pc EXCEPT ![i] = "done"]
       ELSE /\ pc' = [pc EXCEPT ![i] = "execute"]
            /\ UNCHANGED outcome
    /\ Completes(i)
    /\ UNCHANGED <<tasks, batch, results, call, request, answer, typed,
                   pending_approvals, requests, prompted, tool_calls, model_calls,
                   last_op>>

\* the collaborators call_tool_with_approval knows, with the keyword
\* parameters of their signatures in tools.py
Collaborators == {"scrape_website", "fetch_calendar_events"}
Keywords(fn) ==
    IF fn = "scrape_website" THEN {"url", "max_depth"}
    ELSE {"calendar_id", "max_events"}
RequiredKeywords(fn) == IF fn = "scrape_website" THEN {"url"} ELSE {}

\* fn(**params) raises TypeError before fn runs
BindRaises(fn, params) ==
    \/ ~(DOMAIN params.val \subseteq Keywords(fn))
    \/ ~(RequiredKeywords(fn) \subseteq DOMAIN params.val)

\* a gate without the except clause
Propagated(message) == Exc("Exception", message)

\* except Exception as e: return {"status": "error", "message": str(e)}
Caught(message) == Ret(ErrorEnvelope(message))

\* the try block of call_tool_with_approval
Execute(i) ==
    /\ pc[i] = "execute"
    /\ LET tool_name == call[i].tool_name
           params == call[i].params
       IN IF tool_name \notin Collaborators
          THEN /\ outcome' = [outcome EXCEPT ![i] =
                      Caught(<<"Unknown tool: ", tool_name>>)]
               /\ UNCHANGED tool_calls
          ELSE IF BindRaises(tool_name, params)
          THEN /\ outcome' = [outcome EXCEPT ![i] = Caught(<<"TypeError: ", tool_name>>)]
               /\ UNCHANGED tool_calls
          ELSE \E raises \in BOOLEAN :
                 /\ tool_calls' = tool_calls \cup
                        {[thread |-> i, tool |-> tool_name, params |-> params,
                          raised |-> raises]}
                 /\ outcome' = [outcome EXCEPT ![i] =
                        IF raises
                        THEN Caught(<<"collaborator failure: ", tool_name>>)
                        ELSE Ret(SuccessEnvelope([tool |-> tool_name, params |-> params]))]
    /\ pc' = [pc EXCEPT ![i] = "done"]
    /\ Completes(i)
    /\ UNCHANGED <<tasks, batch, results, call, request, answer, typed,
                   pending_approvals, requests, prompted, model_calls, last_op>>

(***************************************************************************)
(* Dispatcher (agent.py).                                                  *)
(***************************************************************************)
\* `if model:` after model_config["models"].get(model_name, None)
NotModel(model_name) ==
    \/ model_name \notin DOMAIN model_config.models
    \/ DOMAIN model_config.models[model_name] = {}

ModelFields ==
    {"temperature", "max_tokens", "top_p", "frequency_penalty", "presence_penalty"}

\* task.get(key) is truthy (the keys tested this way hold booleans)
Truthy(task, key) == key \in DOMAIN task /\ task[key]

\* process_tasks, the loop body for one task: whether it raises, and the
\* task afterwards
PreprocessRaises(task) ==
    \/ "query" \in DOMAIN task /\ ~IsInstanceStr(task.query)
    \/ /\ Truthy(task, "needs_embedding")
       /\ \/ "text" \notin DOMAIN task
          \/ preprocess_for_embedding_raises(task.text)

Preprocess(task) ==
    [k \in DOMAIN task |->
        IF k = "query" /\ IsInstanceStr(task.query)
        THEN StrV(clean_query(task.query.val))
        ELSE IF /\ k = "text"
                /\ Truthy(task, "needs_embedding")
                /\ ~("query" \in DOMAIN task /\ ~IsInstanceStr(task.query))
                /\ ~preprocess_for_embedding_raises(task.text)
        THEN preprocess_for_embedding(task.text)
        ELSE task[k]]

\* process_tasks up to the submission of the batch by executor.map
ProcessTasks ==
    /\ batch = "new"
    /\ LET N == Len(tasks)
           raising == {i \in 1..N : PreprocessRaises(tasks[i])}
           first == IF raising = {} THEN N + 1
                    ELSE CHOOSE i \in raising : \A j \in raising : i <= j
       IN /\ tasks' = [i \in 1..N |-> IF i <= first THEN Preprocess(tasks[i]) ELSE tasks[i]]
          /\ batch' = IF raising = {} THEN "running" ELSE "raised"
    /\ UNCHANGED <<results, pc, call, request, answer, typed, outcome, pending_approvals,
                   requests, prompted, tool_calls, model_calls, last_op, completed>>

\* a pool whose worker is never given back after its task has ended
RunningForever(i) == pc[i] \notin {"queued", "cancelled"}

\* the task of future i occupies a worker thread
Running(i) == pc[i] \notin {"queued", "done", "cancelled"}

\* an executor that starts a thread for every task
WorkerAlwaysFree == TRUE

\* ThreadPoolExecutor(): a task starts only on one of the max_workers threads
WorkerFree == Cardinality({j \in Threads : Running(j)}) < max_workers

\* a gate that uses the one ApprovalManager the agent built
SharedManager(i) == 0

\* approval_manager = ApprovalManager(): the manager the gate call of
\* thread i builds for itself
GateManager(i) == i

\* a run_agent_task that hands the caller's parameters on as they are
RawParams(task) == task.params

\* task['params'] = validate_parameters(task['params'])
SanitizedParams(task) == validate_parameters(task.params)

\* a worker takes task i from the queue and runs run_agent_task up to its
\* first step outside the task: validate_parameters, then the model lookup
\* or ApprovalManager() and is_approval_required
RunAgentTask(i) ==
    /\ batch \in {"running", "failing"}
    /\ pc[i] = "queued"
    /\ \A j \in 1..(i - 1) : pc[j] # "queued"
    /\ WorkerFree
    /\ LET task == tasks[i]
           has_params == "params" \in DOMAIN task
           raises == has_params /\ validate_parameters_raises(task.params)
           cleaned == IF has_params /\ ~raises
                      THEN [task EXCEPT !.params = SanitizedParams(task)]
                      ELSE task
           Raise(e) == /\ outcome' = [outcome EXCEPT ![i] = e]
                       /\ pc' = [pc EXCEPT ![i] = "done"]
                       /\ UNCHANGED call
       IN /\ tasks' = [tasks EXCEPT ![i] = cleaned]
          /\ IF raises
             THEN /\ Raise(Exc(IF task.params.type = "dict" THEN "ValueError"
                               ELSE "AttributeError", <<"validate_parameters">>))
                  /\ UNCHANGED pending_approvals
             ELSE IF Truthy(task, "is_model_task")
             THEN /\ UNCHANGED pending_approvals
                  /\ IF "model_name" \notin DOMAIN task
                     THEN Raise(Exc("KeyError", <<"model_name">>))
                     ELSE IF "prompt" \notin DOMAIN task
                     THEN Raise(Exc("KeyError", <<"prompt">>))
                     ELSE IF NotModel(task.model_name)
                     THEN Raise(Exc("ValueError",
                            <<"Model ", task.model_name, " not found in configuration.">>))
                     ELSE IF ~(ModelFields \subseteq
                                 DOMAIN model_config.models[task.model_name])
                     THEN Raise(Exc("KeyError", <<"model">>))
                     ELSE /\ call' = [call EXCEPT ![i] =
                                 [op |-> "call_openai_model",
                                  tool_name |-> task.model_name,
                                  params |-> task.prompt, mgr |-> 0]]
                          /\ pc' = [pc EXCEPT ![i] = "model_call"]
                          /\ UNCHANGED outcome
             ELSE IF "tool" \notin DOMAIN task
             THEN Raise(Exc("KeyError", <<"tool">>)) /\ UNCHANGED pending_approvals
             ELSE IF "params" \notin DOMAIN task
             THEN Raise(Exc("KeyError", <<"params">>)) /\ UNCHANGED pending_approvals
             ELSE \* call_tool_with_approval: a new ApprovalManager for this call
                  /\ pending_approvals' = (GateManager(i) :> <<>>) @@ pending_approvals
                  /\ IF GateEntry(task.tool) = "raise"
                     THEN Raise(NotFound(task.tool))
                     ELSE /\ call' = [call EXCEPT ![i] =
                                 [op |-> "call_tool_with_approval",
                                  tool_name |-> task.tool,
                                  params |-> cleaned.params,
                                  mgr |-> GateManager(i)]]
                          /\ pc' = [pc EXCEPT ![i] = GateEntry(task.tool)]
                          /\ UNCHANGED outcome
    /\ Completes(i)
    /\ UNCHANGED <<batch, results, request, answer, typed, requests, prompted,
                   tool_calls, model_calls, last_op>>

\* a model call with fixed parameters, whatever the configuration says
choose_model_default(model_name) ==
    [temperature |-> 1, max_tokens |-> 16, top_p |-> 1,
     frequency_penalty |-> 0, presence_penalty |-> 0]

\* choose_model, for a model_name that has an entry: the entry
choose_model(model_name) == model_config.models[model_name]

\* call_openai_model: the call of the model collaborator
ModelCall(i) ==
    /\ pc[i] = "model_call"
    /\ model_calls' = model_calls \cup
           {[thread |-> i, model |-> call[i].tool_name, prompt |-> call[i].params,
             parameters |-> choose_model(call[i].tool_name)]}
    /\ \E raises \in BOOLEAN :
         outcome' = [outcome EXCEPT ![i] =
            IF raises THEN Exc("OpenAIError", <<"model collaborator failure">>)
            ELSE Ret(StrV(<<"completion of ", call[i].params>>))]
    /\ pc' = [pc EXCEPT ![i] = "done"]
    /\ Completes(i)
    /\ UNCHANGED <<tasks, batch, results, call, request, answer, typed,
                   pending_approvals, requests, prompted, tool_calls, last_op>>

\* results taken in completion order (as_completed)
NextFutureCompleted(collected) ==
    IF collected < Len(completed) THEN completed[collected + 1] ELSE collected + 1

\* the future whose result list(executor.map(...)) takes next
NextFuture(collected) == collected + 1

\* list(executor.map(...)): take the next result; a raised exception leaves the
\* iterator, which cancels the futures that have not started
Collect ==
    /\ batch = "running"
    /\ Len(results) < Len(tasks)
    /\ LET k == NextFuture(Len(results)) IN
         /\ pc[k] = "done"
         /\ IF outcome[k].kind = "return"
            THEN /\ results' = Append(results, outcome[k].value)
                 /\ UNCHANGED <<batch, pc>>
            ELSE /\ batch' = "failing"
                 /\ pc' = [j \in Threads |->
                             IF pc[j] = "queued" THEN "cancelled" ELSE pc[j]]
                 /\ UNCHANGED results
    /\ UNCHANGED <<tasks, call, request, answer, typed, outcome, pending_approvals,
                   requests, prompted, tool_calls, model_calls, last_op, completed>>

\* run_agents_parallel returns: the with block waits for the workers
ReturnResults ==
    /\ batch = "running"
    /\ Len(results) = Len(tasks)
    /\ \A j \in Threads : ~Running(j)
    /\ batch' = "returned"
    /\ UNCHANGED <<tasks, results, pc, call, request, answer, typed, outcome,
                   pending_approvals, requests, prompted, tool_calls, model_calls,
                   last_op, completed>>

\* an executor shut down without waiting for its workers
RaiseBatchAtOnce ==
    /\ batch = "failing"
    /\ batch' = "raised"
    /\ UNCHANGED <<tasks, results, pc, call, request, answer, typed, outcome,
                   pending_approvals, requests, prompted, tool_calls, model_calls,
                   last_op, completed>>

\* run_agents_parallel raises: the with block waits for the running workers
RaiseBatch ==
    /\ batch = "failing"
    /\ \A j \in Threads : ~Running(j)
    /\ batch' = "raised"
    /\ UNCHANGED <<tasks, results, pc, call, request, answer, typed, outcome,
                   pending_approvals, requests, prompted, tool_calls, model_calls,
                   last_op, completed>>

(***************************************************************************)
(* Client threads that call the public methods of one shared               *)
(* ApprovalManager (manager 0, the one Agent.__init__ builds).             *)
(***************************************************************************)
S(a, b, c) == StrV(<<a, b, c>>)

\* parameter dictionaries a caller may pass
GoodScrape == DictV([url |-> S("a", ".", "b"), max_depth |-> IntV(3)])
DigitScrape == DictV([url |-> S("a", "/", "b"), max_depth |-> StrV(<<"3">>)])
NoDepthScrape == DictV([url |-> S("a", ".", "b")])
Sup2Scrape == DictV([url |-> S("a", ".", "b"), max_depth |-> StrV(<<"SUP2">>)])
GoodCalendar == DictV([calendar_id |-> S("p", "r", "i"), max_events |-> IntV(5)])
BadCalendar == DictV([calendar_id |-> IntV(7), max_events |-> S("x", " ", "y")])
GoodWeb == DictV([url |-> S("a", ".", "b"), mode |-> NullV])

\* the arguments a client passes to request_approval
ClientArgs ==
    { <<"scrape_website", GoodScrape>>, <<"scrape_website", GoodWeb>>,
      <<"web_scraper", GoodWeb>>, <<"unknown_tool", GoodScrape>> }
\* the tool names a client passes to approve_request / reject_request
ClientTools == {"scrape_website", "web_scraper"}

\* a client thread calls request_approval on the shared manager
ClientCall(i) ==
    /\ batch = "none"
    /\ pc[i] = "idle"
    /\ \E args \in ClientArgs :
         call' = [call EXCEPT ![i] =
            [op |-> "request_approval", tool_name |-> args[1], params |-> args[2],
             mgr |-> 0]]
    /\ pc' = [pc EXCEPT ![i] = "request_approval"]
    /\ UNCHANGED <<tasks, results, batch, request, answer, typed, outcome,
                   pending_approvals, requests, prompted, tool_calls, model_calls,
                   last_op, completed>>

NoOp == [op |-> "none"]

\* a client calls approve_request on the shared manager
ApproveRequest(tool_name) ==
    /\ batch = "none"
    /\ IF Lookup(0, tool_name) = NoRequest
       THEN /\ last_op' = [op |-> "approve_request", outcome |-> NoPending(tool_name)]
            /\ UNCHANGED requests
       ELSE /\ requests' = approve_request(0, tool_name)
            /\ last_op' = [op |-> "approve_request", outcome |-> Ret(None)]
    /\ UNCHANGED <<tasks, batch, results, pc, call, request, answer, typed, outcome,
                   pending_approvals, prompted, tool_calls, model_calls, completed>>

\* a client calls reject_request on the shared manager
RejectRequest(tool_name) ==
    /\ batch = "none"
    /\ IF Lookup(0, tool_name) = NoRequest
       THEN /\ last_op' = [op |-> "reject_request", outcome |-> NoPending(tool_name)]
            /\ UNCHANGED requests
       ELSE /\ requests' = reject_request(0, tool_name)
            /\ last_op' = [op |-> "reject_request", outcome |-> Ret(None)]
    /\ UNCHANGED <<tasks, batch, results, pc, call, request, answer, typed, outcome,
                   pending_approvals, prompted, tool_calls, model_calls, completed>>

\* a status lookup that forgets the requests already decided
get_request_status_pending(m, tool_name) ==
    IF Lookup(m, tool_name) = NoRequest THEN None
    ELSE IF requests[Lookup(m, tool_name)].status = PENDING THEN PENDING
    ELSE None

\* get_request_status: the value manager m returns for tool_name
get_request_status(m, tool_name) ==
    IF Lookup(m, tool_name) = NoRequest THEN None
    ELSE requests[Lookup(m, tool_name)].status

(***************************************************************************)
(* Batches, initial states and specifications.                             *)
(***************************************************************************)
ToolTask(tool_name, params) ==
    [tool |-> tool_name, params |-> params, is_model_task |-> FALSE]

TaskPool ==
    { ToolTask("scrape_website", GoodScrape),
      ToolTask("scrape_website", DigitScrape),
      ToolTask("scrape_website", NoDepthScrape),
      ToolTask("scrape_website", Sup2Scrape),
      ToolTask("fetch_calendar_events", GoodCalendar),
      ToolTask("fetch_calendar_events", BadCalendar),
      ToolTask("web_scraper", GoodWeb),
      ToolTask("unknown_tool", GoodScrape),
      ToolTask("noop", GoodScrape),
      [tool |-> "scrape_website", is_model_task |-> FALSE],
      [is_model_task |-> TRUE, model_name |-> "gpt-4", prompt |-> "write a script",
       query |-> StrV(<<" ", "H", "e", ",", " ", " ", "W", "!">>)],
      [is_model_task |-> TRUE, model_name |-> "gpt-5", prompt |-> "write a script"],
      [is_model_task |-> TRUE, model_name |-> "gpt-4", prompt |-> "embed",
       needs_embedding |-> TRUE,
       text |-> StrV(<<"h", "t", "t", "p", ":", "x", " ", "5", " ", "d", "a", "y", "s">>)],
      [is_model_task |-> TRUE, model_name |-> "gpt-4", prompt |-> "embed",
       needs_embedding |-> TRUE] }

Batches == UNION {[1..n -> TaskPool] : n \in 0..MaxBatch}

\* Agent(): the configuration is loaded, the agent's own ApprovalManager is
\* built, nothing has run
InitCommon ==
    /\ results = <<>>
    /\ pending_approvals = (0 :> <<>>)
    /\ requests = <<>>
    /\ prompted = {}
    /\ tool_calls = {}
    /\ model_calls = {}
    /\ last_op = NoOp
    /\ completed = <<>>

\* a batch is handed to process_tasks
Init ==
    /\ tasks \in Batches
    /\ batch = "new"
    /\ pc = [i \in 1..Len(tasks) |-> "queued"]
    /\ call = [i \in 1..Len(tasks) |-> NoCall]
    /\ request = [i \in 1..Len(tasks) |-> NoRequest]
    /\ answer = [i \in 1..Len(tasks) |-> FALSE]
    /\ typed = [i \in 1..Len(tasks) |-> None]
    /\ outcome = [i \in 1..Len(tasks) |-> NoOutcome]
    /\ InitCommon

Next ==
    \/ ProcessTasks
    \/ \E i \in Threads : RunAgentTask(i)
    \/ \E i \in Threads : RequestApproval(i)
    \/ \E i \in Threads : Prompt(i)
    \/ \E i \in Threads : Input(i)
    \/ \E i \in Threads : Retry(i)
    \/ \E i \in Threads : Decide(i)
    \/ \E i \in Threads : GateCheck(i)
    \/ \E i \in Threads : Execute(i)
    \/ \E i \in Threads : ModelCall(i)
    \/ Collect
    \/ ReturnResults
    \/ RaiseBatch

Spec == Init /\ [][Next]_vars

\* batches one task longer than the pool: a gated tool task, a model task
\* and a model task that fails
PoolTasks ==
    { ToolTask("scrape_website", GoodScrape),
      [is_model_task |-> TRUE, model_name |-> "gpt-4", prompt |-> "write a script"],
      [is_model_task |-> TRUE, model_name |-> "gpt-5", prompt |-> "write a script"] }

InitPool ==
    /\ tasks \in [1..(max_workers + 1) -> PoolTasks]
    /\ batch = "new"
    /\ pc = [i \in 1..Len(tasks) |-> "queued"]
    /\ call = [i \in 1..Len(tasks) |-> NoCall]
    /\ request = [i \in 1..Len(tasks) |-> NoRequest]
    /\ answer = [i \in 1..Len(tasks) |-> FALSE]
    /\ typed = [i \in 1..Len(tasks) |-> None]
    /\ outcome = [i \in 1..Len(tasks) |-> NoOutcome]
    /\ InitCommon

SpecPool == InitPool /\ [][Next]_vars

\* get_user_approval reads an answer that is 'y' or 'n' after lowercasing
ValidInput(i) == Input(i) /\ pc'[i] = "decide"

\* a step of worker thread i
WorkerStep(i) ==
    \/ RunAgentTask(i) \/ RequestApproval(i) \/ Prompt(i) \/ Input(i)
    \/ Retry(i) \/ Decide(i) \/ GateCheck(i) \/ Execute(i) \/ ModelCall(i)

\* a step of the thread that called process_tasks
MainStep == ProcessTasks \/ Collect \/ ReturnResults \/ RaiseBatch

\* the same batches, with threads that keep being scheduled, collaborators
\* that return or raise, and a human who in the end answers every prompt
\* with 'y' or 'n'
SpecPoolFair ==
    /\ SpecPool
    /\ WF_vars(MainStep)
    /\ \A i \in 1..(max_workers + 1) :
         WF_vars(WorkerStep(i)) /\ SF_vars(ValidInput(i))

\* client threads share the agent's ApprovalManager
InitManager ==
    /\ tasks = <<>>
    /\ batch = "none"
    /\ pc = [i \in 1..NumClients |-> "idle"]
    /\ call = [i \in 1..NumClients |-> NoCall]
    /\ request = [i \in 1..NumClients |-> NoRequest]
    /\ answer = [i \in 1..NumClients |-> FALSE]
    /\ typed = [i \in 1..NumClients |-> None]
    /\ outcome = [i \in 1..NumClients |-> NoOutcome]
    /\ InitCommon

NextManager ==
    \/ \E i \in Threads : ClientCall(i)
    \/ \E i \in Threads : RequestApproval(i)
    \/ \E i \in Threads : Prompt(i)
    \/ \E i \in Threads : Input(i)
    \/ \E i \in Threads : Retry(i)
    \/ \E i \in Threads : Decide(i)
    \/ \E tool_name \in ClientTools : ApproveRequest(tool_name)
    \/ \E tool_name \in ClientTools : RejectRequest(tool_name)

SpecManager == InitManager /\ [][NextManager]_vars

(***************************************************************************)
(* The preprocessing functions applied to JSON-like values: the input is   *)
(* tasks[1], every application takes the value the previous one returned   *)
(* and is recorded in results.                                             *)
(***************************************************************************)
ExampleUrl ==
    <<"h", "t", "t", "p", ":", "/", "/", "e", "x", "a", "m", "p", "l", "e",
      ".", "c", "o", "m">>
ExampleParams == DictV([max_depth |-> StrV(<<"3">>), url |-> StrV(ExampleUrl)])

\* "Visit http://x.com or a@b.com, 5 percent off"
ExampleText ==
    <<"V", "i", "s", "i", "t", " ", "h", "t", "t", "p", ":", "/", "/",
      "x", ".", "c", "o", "m", " ", "o", "r", " ", "a", "@", "b", ".",
      "c", "o", "m", ",", " ", "5", " ", "p", "e", "r", "c", "e", "n",
      "t", " ", "o", "f", "f">>
\* "  Hello,   World!!  "
ExampleQuery ==
    <<" ", " ", "H", "e", "l", "l", "o", ",", " ", " ", " ", "W", "o",
      "r", "l", "d", "!", "!", " ", " ">>

Texts ==
    { <<"3">>, <<"#", "1", "2">>, <<" ", "1", "2", " ">>, <<"SUP2">>,
      <<"a", " ", "@", " ", "b">>, <<"a", ".", "b">>, <<>>, ExampleUrl,
      <<"H", "e", ",", " ", "\n", "W", "!">>, <<"x", "@", "y", ".", "c">>,
      <<"5", " ", "d", "a", "y", "s", " ", "7">>, ExampleText, ExampleQuery }

Leaves == {StrV(t) : t \in Texts} \cup {IntV(3), BoolV(TRUE), NullV}

ListItems ==
    { StrV(<<"#", "1", "2">>), StrV(<<"3">>), IntV(3),
      DictV([n |-> StrV(<<"3">>)]), ListV(<<StrV(<<"a", ":">>)>>) }

Lists ==
    {ListV(<<>>)} \cup {ListV(<<a>>) : a \in ListItems}
      \cup {ListV(<<a, b>>) : a, b \in ListItems}
      \cup {ListV(<<StrV(t)>>) : t \in Texts}

PreInputs ==
    Leaves \cup Lists
      \cup {DictV(<<>>)}
      \cup {DictV([max_depth |-> a, url |-> b]) : a, b \in Leaves}
      \cup {DictV([opts |-> DictV([max_depth |-> a]), tags |-> l]) :
              a \in Leaves, l \in Lists}

\* the value the next application takes
CurrentValue == IF results = <<>> THEN tasks[1] ELSE results[Len(results)].value

CanApply ==
    /\ batch = "preprocessing"
    /\ Len(results) < MaxApplications
    /\ outcome[1].kind # "raise"

Applied(fn, arg, value) ==
    /\ results' = Append(results, [fn |-> fn, arg |-> arg, value |-> value])
    /\ UNCHANGED outcome

Raised(type, fn) ==
    /\ outcome' = [outcome EXCEPT ![1] = Exc(type, <<fn>>)]
    /\ UNCHANGED results

ApplyValidateParameters ==
    /\ CanApply
    /\ LET params == CurrentValue IN
         IF params.type # "dict" THEN Raised("AttributeError", "validate_parameters")
         ELSE IF validate_parameters_raises(params)
         THEN Raised("ValueError", "validate_parameters")
         ELSE Applied("validate_parameters", params, validate_parameters(params))
    /\ UNCHANGED <<tasks, batch, pc, call, request, answer, typed, pending_approvals,
                   requests, prompted, tool_calls, model_calls, last_op, completed>>

ApplyCleanText ==
    /\ CanApply
    /\ IsInstanceStr(CurrentValue)
    /\ Applied("clean_text", CurrentValue, StrV(clean_text(CurrentValue.val)))
    /\ UNCHANGED <<tasks, batch, pc, call, request, answer, typed, pending_approvals,
                   requests, prompted, tool_calls, model_calls, last_op, completed>>

ApplyCleanQuery ==
    /\ CanApply
    /\ IsInstanceStr(CurrentValue)
    /\ Applied("clean_query", CurrentValue, StrV(clean_query(CurrentValue.val)))
    /\ UNCHANGED <<tasks, batch, pc, call, request, answer, typed, pending_approvals,
                   requests, prompted, tool_calls, model_calls, last_op, completed>>

ApplyPreprocessForEmbedding ==
    /\ CanApply
    /\ CurrentValue.type \in {"str", "list"}
    /\ IF preprocess_for_embedding_raises(CurrentValue)
       THEN Raised("TypeError", "preprocess_for_embedding")
       ELSE Applied("preprocess_for_embedding", CurrentValue,
                    preprocess_for_embedding(CurrentValue))
    /\ UNCHANGED <<tasks, batch, pc, call, request, answer, typed, pending_approvals,
                   requests, prompted, tool_calls, model_calls, last_op, completed>>

ApplyPreprocessSingleText ==
    /\ CanApply
    /\ IsInstanceStr(CurrentValue)
    /\ Applied("preprocess_single_text", CurrentValue,
               StrV(preprocess_single_text(CurrentValue.val)))
    /\ UNCHANGED <<tasks, batch, pc, call, request, answer, typed, pending_approvals,
                   requests, prompted, tool_calls, model_calls, last_op, completed>>

InitPreprocessing ==
    /\ tasks \in {<<v>> : v \in PreInputs}
    /\ batch = "preprocessing"
    /\ pc = <<"idle">>
    /\ call = <<NoCall>>
    /\ request = <<NoRequest>>
    /\ answer = <<FALSE>>
    /\ typed = <<None>>
    /\ outcome = <<NoOutcome>>
    /\ InitCommon

NextPreprocessing ==
    \/ ApplyValidateParameters
    \/ ApplyCleanText
    \/ ApplyCleanQuery
    \/ ApplyPreprocessForEmbedding
    \/ ApplyPreprocessSingleText

SpecPreprocessing == InitPreprocessing /\ [][NextPreprocessing]_vars

(***************************************************************************)
(* The read-only methods of ApprovalManager that look a tool up in the     *)
(* configuration, called once with a tool name and the parameters          *)
(* tasks[1]; the call is recorded in call[1] and its result in results.    *)
(***************************************************************************)
ParamValues == Leaves \cup {ListV(<<>>), DictV(<<>>)}

LookupInputs ==
    {DictV(<<>>)}
      \cup {DictV([url |-> a]) : a \in ParamValues}
      \cup {DictV([max_depth |-> a, url |-> b]) : a, b \in ParamValues}
      \cup {DictV([mode |-> a, url |-> b]) : a, b \in ParamValues}

CanLookup == batch = "lookup" /\ results = <<>> /\ outcome[1].kind = "none"

Looked(fn, tool_name) ==
    call' = [call EXCEPT ![1] =
               [op |-> fn, tool_name |-> tool_name, params |-> tasks[1], mgr |-> 0]]

\* validate_params(tool_name, params) as a method call
CallValidateParams(tool_name) ==
    /\ CanLookup
    /\ Looked("validate_params", tool_name)
    /\ IF NotToolInfo(tool_name)
       THEN /\ outcome' = [outcome EXCEPT ![1] = NotFound(tool_name)]
            /\ UNCHANGED results
       ELSE /\ results' = <<[fn |-> "validate_params", tool_name |-> tool_name,
                            arg |-> tasks[1],
                            value |-> validate_params(tool_name, tasks[1])]>>
            /\ UNCHANGED outcome
    /\ UNCHANGED <<tasks, batch, pc, request, answer, typed, pending_approvals,
                   requests, prompted, tool_calls, model_calls, last_op, completed>>

\* is_approval_required(tool_name) as a method call
CallIsApprovalRequired(tool_name) ==
    /\ CanLookup
    /\ Looked("is_approval_required", tool_name)
    /\ IF NotToolInfo(tool_name)
       THEN /\ outcome' = [outcome EXCEPT ![1] = NotFound(tool_name)]
            /\ UNCHANGED results
       ELSE /\ results' = <<[fn |-> "is_approval_required", tool_name |-> tool_name,
                            arg |-> tasks[1],
                            value |-> is_approval_required(tool_name)]>>
            /\ UNCHANGED outcome
    /\ UNCHANGED <<tasks, batch, pc, request, answer, typed, pending_approvals,
                   requests, prompted, tool_calls, model_calls, last_op, completed>>

InitLookup ==
    /\ tasks \in {<<v>> : v \in LookupInputs}
    /\ batch = "lookup"
    /\ pc = <<"idle">>
    /\ call = <<NoCall>>
    /\ request = <<NoRequest>>
    /\ answer = <<FALSE>>
    /\ typed = <<None>>
    /\ outcome = <<NoOutcome>>
    /\ InitCommon

NextLookup ==
    \/ \E tool_name \in ToolNames : CallValidateParams(tool_name)
    \/ \E tool_name \in ToolNames : CallIsApprovalRequired(tool_name)

SpecLookup == InitLookup /\ [][NextLookup]_vars

(***************************************************************************)
(* Properties.                                                             *)
(***************************************************************************)
Terminal == {APPROVED, REJECTED}
Decision(yes) == IF yes THEN APPROVED ELSE REJECTED
CallsOf(i) == {c \in tool_calls : c.thread = i}
IsEnvelope(v) ==
    \/ DOMAIN v = {"status", "result"} /\ v.status = "success"
    \/ DOMAIN v = {"status", "message"} /\ v.status = "error"

\* C1: a tool collaborator of a tool with approval_required = true is invoked
\* only by a call whose own ApprovalRequest is Approved after the human
\* answered yes; a call whose human answered no never invokes it.
C1_GatedToolRunsOnlyAfterApproval ==
    /\ \A c \in tool_calls :
         is_approval_required(c.tool) =>
           /\ request[c.thread] # NoRequest
           /\ requests[request[c.thread]].tool_name = c.tool
           /\ requests[request[c.thread]].status = APPROVED
           /\ answer[c.thread]
    /\ \A i \in Threads :
         (pc[i] \in {"decide", "gate", "execute", "done"}
            /\ request[i] # NoRequest /\ ~answer[i]) =>
           CallsOf(i) = {} /\ pc[i] # "execute"

\* one gated call approved and executed, another rejected and finished
C1_Witness ==
    \E c \in tool_calls, j \in Threads :
      /\ is_approval_required(c.tool)
      /\ j # c.thread
      /\ pc[j] = "done"
      /\ request[j] # NoRequest
      /\ requests[request[j]].status = REJECTED

\* C2: process_tasks returns, for every batch of N tasks, a list of N result
\* envelopes; no failure of one task makes the call raise or drop results.
C2_BatchYieldsOneEnvelopePerTask ==
    batch \in {"returned", "raised"} =>
      /\ batch = "returned"
      /\ Len(results) = Len(tasks)
      /\ \A k \in 1..Len(results) : IsEnvelope(results[k])

\* C3: the list run_agents_parallel builds has at position k what task k
\* returned, whatever the order in which the workers completed.
C3_ResultsInInputOrder ==
    /\ \A k \in 1..Len(results) :
         outcome[k].kind = "return" /\ results[k] = outcome[k].value
    /\ batch = "returned" => Len(results) = Len(tasks)

\* two tasks with different results, the second completed first
C3_Witness ==
    /\ batch = "returned"
    /\ Len(results) = 2
    /\ completed = <<2, 1>>
    /\ results[1] # results[2]

\* C4: the decision step of one request_approval call gives its own request
\* the human's answer and changes no request of another call.
C4_DecisionsAreIndependent ==
    [][\A i \in Threads :
         (Decide(i) /\ request[i] # NoRequest) =>
           /\ requests'[request[i]].status = Decision(answer[i])
           /\ \A r \in DOMAIN requests :
                r # request[i] => requests'[r] = requests[r]]_vars

\* C5: a request whose status is Approved or Rejected keeps that status in
\* every later step.
C5_TerminalStatusNeverChanges ==
    [][\A r \in DOMAIN requests :
         requests[r].status \in Terminal =>
           requests'[r].status = requests[r].status]_vars

\* C6: approve_request or reject_request on a tool whose stored request is
\* already Approved or Rejected raises and changes no request.
C6_DecidingTerminalRequestFails ==
    [][\A t \in ClientTools :
         (/\ Lookup(0, t) # NoRequest
          /\ requests[Lookup(0, t)].status \in Terminal
          /\ ApproveRequest(t) \/ RejectRequest(t)) =>
           last_op'.outcome.kind = "raise" /\ requests' = requests]_vars

\* C7: the request a request_approval call returns has, at the return, the
\* terminal status that matches the answer read for that call.
C7_ReturnedRequestIsDecided ==
    \A i \in Threads :
      (pc[i] = "done" /\ call[i].op = "request_approval"
         /\ outcome[i].kind = "return") =>
        outcome[i].value.status = Decision(answer[i])

\* C8: every ApprovalRequest created, stored or prompted has parameters that
\* validate_params accepts; a request_approval call whose parameters it
\* rejects ends in ValueError with no request of its own.
C8_RequestOnlyAfterValidation ==
    /\ \A r \in DOMAIN requests :
         validate_params(requests[r].tool_name, requests[r].params)
    /\ prompted \subseteq DOMAIN requests
    /\ \A m \in DOMAIN pending_approvals :
         \A t \in DOMAIN pending_approvals[m] :
           pending_approvals[m][t] \in DOMAIN requests
    /\ \A i \in Threads :
         (/\ call[i].op = "request_approval"
          /\ ~NotToolInfo(call[i].tool_name)
          /\ ~validate_params(call[i].tool_name, call[i].params)) =>
           /\ pc[i] \in {"request_approval", "done"}
           /\ request[i] = NoRequest
           /\ pc[i] = "done" =>
                outcome[i] = [kind |-> "raise", exc |-> "ValueError",
                              message |-> <<"Invalid parameters for tool ",
                                            call[i].tool_name>>]
           /\ \A m \in DOMAIN pending_approvals :
                \A t \in DOMAIN pending_approvals[m] :
                  \/ requests[pending_approvals[m][t]].tool_name # call[i].tool_name
                  \/ requests[pending_approvals[m][t]].params # call[i].params

\* a call rejected for its parameters, next to a request that was created
C8_Witness ==
    \E i, j \in Threads :
      /\ pc[i] = "done"
      /\ outcome[i].kind = "raise"
      /\ ~NotToolInfo(call[i].tool_name)
      /\ ~validate_params(call[i].tool_name, call[i].params)
      /\ request[j] # NoRequest
      /\ request[j] \in prompted

\* the tool tasks whose tool name has no entry in the tool configuration
Unconfigured(i) ==
    /\ ~Truthy(tasks[i], "is_model_task")
    /\ "tool" \in DOMAIN tasks[i]
    /\ "params" \in DOMAIN tasks[i]
    /\ ~validate_parameters_raises(tasks[i].params)
    /\ tasks[i].tool \notin DOMAIN tool_config.tools

\* C9: a call_tool_with_approval for an unconfigured tool name raises
\* ValueError; it creates no ApprovalRequest, shows no prompt and invokes no
\* collaborator.
C9_UnconfiguredToolNeverReachesApproval ==
    \A i \in Threads :
      Unconfigured(i) =>
        /\ pc[i] \in {"queued", "cancelled", "done"}
        /\ request[i] = NoRequest
        /\ CallsOf(i) = {}
        /\ \A r \in DOMAIN requests : requests[r].tool_name # tasks[i].tool
        /\ i \in DOMAIN pending_approvals => pending_approvals[i] = <<>>
        /\ pc[i] = "done" =>
             outcome[i] = [kind |-> "raise", exc |-> "ValueError",
                           message |-> <<"Tool ", tasks[i].tool,
                                         " not found in configuration">>]

\* a call for an unconfigured tool has ended
C9_Witness == \E i \in Threads : Unconfigured(i) /\ pc[i] = "done"

\* C10: a call whose collaborator raised returns the error envelope of the
\* exception's message; it never ends in an exception.
C10_CollaboratorExceptionIsEnveloped ==
    \A c \in tool_calls :
      c.raised =>
        /\ pc[c.thread] = "done"
        /\ outcome[c.thread] =
             [kind |-> "return",
              value |-> [status |-> "error",
                         message |-> <<"collaborator failure: ", c.tool>>]]

\* a collaborator was invoked and raised
C10_Witness == \E c \in tool_calls : c.raised /\ pc[c.thread] = "done"

\* the gated calls of call_tool_with_approval whose cleaned parameters fail
\* the schema of their tool
GatedSchemaFailure(i) ==
    /\ call[i].op = "call_tool_with_approval"
    /\ ~NotToolInfo(call[i].tool_name)
    /\ is_approval_required(call[i].tool_name)
    /\ ~validate_params(call[i].tool_name, call[i].params)

\* C11: a gated call_tool_with_approval whose parameters fail the tool's
\* schema ends by returning an error envelope, never by raising.
C11_SchemaFailureIsEnveloped ==
    \A i \in Threads :
      (GatedSchemaFailure(i) /\ pc[i] = "done") =>
        /\ outcome[i].kind = "return"
        /\ IsEnvelope(outcome[i].value)
        /\ outcome[i].value.status = "error"

\* the calls for a configured tool that passed the gate: approval is not
\* required or was granted, and the parameters fit the collaborator's
\* signature where the gate knows one
PassedGate(i) ==
    /\ call[i].op = "call_tool_with_approval"
    /\ pc[i] = "done"
    /\ ~NotToolInfo(call[i].tool_name)
    /\ \/ ~is_approval_required(call[i].tool_name)
       \/ /\ request[i] # NoRequest
          /\ requests[request[i]].status = APPROVED
    /\ call[i].tool_name \in Collaborators =>
         ~BindRaises(call[i].tool_name, call[i].params)

\* C12: a call for any configured tool that passed the gate has invoked the
\* collaborator of that tool name with params and, if that returned, yields
\* the success envelope of its output.
C12_ConfiguredToolIsInvoked ==
    \A i \in Threads :
      PassedGate(i) =>
        \E c \in CallsOf(i) :
          /\ c.tool = call[i].tool_name
          /\ c.params = call[i].params
          /\ ~c.raised =>
               /\ outcome[i].kind = "return"
               /\ DOMAIN outcome[i].value = {"status", "result"}
               /\ outcome[i].value.status = "success"

\* the gated calls the human answered no to, after their return
RejectedCall(i) ==
    /\ call[i].op = "call_tool_with_approval"
    /\ pc[i] = "done"
    /\ request[i] # NoRequest
    /\ ~answer[i]

C14_ModelTaskYieldsEnvelope ==
    \A i \in Threads :
      (batch # "none" /\ Truthy(tasks[i], "is_model_task") /\ pc[i] = "done") =>
        /\ outcome[i].kind = "return"
        /\ IsEnvelope(outcome[i].value)

\* what a step of approve_request / reject_request on tool t must do: raise
\* and change nothing when no request is stored, give a Pending request the
\* status `decided` and change no other request
DecidesOnly(t, decided) ==
    /\ pending_approvals' = pending_approvals
    /\ IF Lookup(0, t) = NoRequest
       THEN /\ last_op'.outcome = Exc("ValueError",
                                      <<"No pending approval for tool ", t>>)
            /\ requests' = requests
       ELSE requests[Lookup(0, t)].status = PENDING =>
              /\ last_op'.outcome.kind = "return"
              /\ requests'[Lookup(0, t)].status = decided
              /\ \A r \in DOMAIN requests :
                   r # Lookup(0, t) => requests'[r] = requests[r]

\* C15: approve_request / reject_request without a stored request raise
\* ValueError and leave pending_approvals and the requests unchanged; with a
\* Pending request stored they set exactly that request to Approved /
\* Rejected.
C15_DecisionByToolName ==
    [][\A t \in ClientTools :
         /\ ApproveRequest(t) => DecidesOnly(t, "APPROVED")
         /\ RejectRequest(t) => DecidesOnly(t, "REJECTED")]_vars

\* a client's approve_request has approved the request of a call that is
\* still waiting for its answer, while another tool has no request
C15_Witness ==
    /\ last_op.op = "approve_request"
    /\ last_op.outcome.kind = "return"
    /\ \E i \in Threads :
         /\ pc[i] = "input"
         /\ requests[request[i]].status = APPROVED
    /\ \E t \in ClientTools : Lookup(0, t) = NoRequest

\* the workers inside get_user_approval: prompt shown, answer not yet read
Prompting == {i \in Threads : pc[i] \in {"input", "retry"}}

\* C16: while one worker has shown its prompt and not yet read its answer,
\* no other worker shows a prompt or reads an answer.
C16_PromptsAreSerialized == Cardinality(Prompting) <= 1

\* the recorded applications of one function
ApplicationsOf(fn) == {k \in 1..Len(results) : batch = "preprocessing" /\ results[k].fn = fn}

\* C17: validate_parameters applied to its own output returns that output.
C17_ValidateParametersIdempotent ==
    \A k \in ApplicationsOf("validate_parameters") :
      (k + 1) \in ApplicationsOf("validate_parameters") =>
        results[k + 1].value = results[k].value

\* b has the shape of a: the same keys in every dictionary, the same length
\* and positions in every list, string and number leaves for string and
\* number leaves, the same value for every other leaf
RECURSIVE SameShape(_, _)
SameShape(a, b) ==
    IF a.type = "dict"
    THEN /\ b.type = "dict"
         /\ DOMAIN b.val = DOMAIN a.val
         /\ \A k \in DOMAIN a.val : SameShape(a.val[k], b.val[k])
    ELSE IF a.type = "list"
    THEN /\ b.type = "list"
         /\ Len(b.val) = Len(a.val)
         /\ \A i \in 1..Len(a.val) : SameShape(a.val[i], b.val[i])
    ELSE IF a.type \in {"str", "int"}
    THEN b.type \in {"str", "int"}
    ELSE b = a

\* C18: what validate_parameters returns has the shape of its argument.
C18_ValidateParametersKeepsShape ==
    \A k \in ApplicationsOf("validate_parameters") :
      SameShape(results[k].arg, results[k].value)

\* validate_parameters has returned for a dictionary that holds a nested
\* dictionary and a list of two items
C18_Witness ==
    \E k \in ApplicationsOf("validate_parameters") :
      /\ "opts" \in DOMAIN results[k].arg.val
      /\ Len(results[k].arg.val.tags.val) = 2
      /\ results[k].value # results[k].arg

\* C19: validate_parameters({"max_depth": "3", "url": "http://example.com"})
\* is {"max_depth": 3, "url": "http://example.com"}.
C19_ExampleUrlUnchanged ==
    \A k \in ApplicationsOf("validate_parameters") :
      results[k].arg = ExampleParams =>
        results[k].value = DictV([max_depth |-> IntV(3), url |-> StrV(ExampleUrl)])

\* C20: no application of a preprocessing function raises, and
\* validate_parameters returns a value that is not a dictionary unchanged.
C20_PreprocessingNeverRaises ==
    batch = "preprocessing" =>
      /\ outcome[1].kind # "raise"
      /\ \A k \in ApplicationsOf("validate_parameters") :
           results[k].arg.type # "dict" => results[k].value = results[k].arg

\* the text w occurs in the text s
Contains(s, w) == \E i \in 1..Len(s) : PrefixAt(s, i, w)

\* C21: preprocess_single_text of the example text keeps "5 percent" and
\* leaves nothing of the URL or of the e-mail address.
C21_ExampleTextStripped ==
    \A k \in ApplicationsOf("preprocess_single_text") :
      results[k].arg.val = ExampleText =>
        /\ Contains(results[k].value.val, <<"5", " ", "p", "e", "r", "c", "e", "n", "t">>)
        /\ ~Contains(results[k].value.val, <<"x", ".", "c", "o", "m">>)
        /\ ~Contains(results[k].value.val, <<"b", ".", "c", "o", "m">>)

\* the method calls of the lookup specification that have returned
Lookups(fn) == {k \in 1..Len(results) : batch = "lookup" /\ results[k].fn = fn}
\* the schema of a configured tool
SchemaOf(tool_name) ==
    IF "params" \in DOMAIN tool_config.tools[tool_name]
    THEN tool_config.tools[tool_name].params ELSE <<>>
\* a value has the runtime type its tag declares (string, integer)
MatchesTag(tag, value) ==
    /\ tag = "string" => value.type = "str"
    /\ tag = "integer" => value.type = "int"

\* C22: for a configured tool validate_params does not raise, and returns
\* false exactly when a parameter of the schema is missing or has a value
\* whose type is not the declared one (a boolean is not an integer).
C22_ValidateParamsChecksTypes ==
    /\ (batch = "lookup" /\ call[1].op = "validate_params"
          /\ outcome[1].kind = "raise") =>
         call[1].tool_name \notin DOMAIN tool_config.tools
    /\ \A k \in Lookups("validate_params") :
         results[k].value =
           (\A p \in DOMAIN SchemaOf(results[k].tool_name) :
              /\ p \in DOMAIN results[k].arg.val
              /\ MatchesTag(SchemaOf(results[k].tool_name)[p], results[k].arg.val[p]))

\* C23: is_approval_required raises exactly for the tool names without an
\* entry in the configuration; for an entry it returns the approval_required
\* flag, false when the entry has none.
C23_ApprovalRequiredForEveryEntry ==
    /\ (batch = "lookup" /\ call[1].op = "is_approval_required") =>
         (outcome[1].kind = "raise" <=>
            call[1].tool_name \notin DOMAIN tool_config.tools)
    /\ \A k \in Lookups("is_approval_required") :
         LET tool_info == tool_config.tools[results[k].tool_name] IN
           results[k].value =
             ("approval_required" \in DOMAIN tool_info /\ tool_info.approval_required)

\* C30: a schema entry whose tag is neither "string" nor "integer" asks only
\* for the presence of its key: validate_params returns true whenever every
\* key of the schema is present and the string and integer entries match.
C30_OtherTagsCheckPresenceOnly ==
    \A k \in Lookups("validate_params") :
      LET schema == SchemaOf(results[k].tool_name)
          params == results[k].arg.val
      IN results[k].value =
           (\A p \in DOMAIN schema :
              /\ p \in DOMAIN params
              /\ schema[p] = "string" => IsInstanceStr(params[p])
              /\ schema[p] = "integer" => IsInstanceInt(params[p]))

\* validate_params accepted a string for a parameter tagged "boolean"
C30_Witness ==
    \E k \in Lookups("validate_params") :
      /\ results[k].tool_name = "web_scraper"
      /\ SchemaOf("web_scraper").mode = "boolean"
      /\ "mode" \in DOMAIN results[k].arg.val
      /\ results[k].arg.val.mode.type = "str"
      /\ results[k].value

\* C24: the tasks of a batch that execute at the same time never outnumber
\* the pool, whose size does not depend on the batch; the other tasks wait.
C24_RunningTasksWithinPool ==
    /\ Cardinality({j \in Threads : Running(j)}) <= max_workers
    /\ \A i \in Threads :
         (pc[i] = "queued" /\ batch = "running") =>
           \A j \in Threads : (j > i) => pc[j] = "queued"

\* a batch longer than the pool: every worker is busy and a task waits
C24_Witness ==
    /\ Len(tasks) > max_workers
    /\ Cardinality({j \in Threads : Running(j)}) = max_workers
    /\ \E i \in Threads : pc[i] = "queued"

\* C25: what clean_query returns holds only lowercase word characters and
\* single spaces, with no space at either end, and
\* clean_query("  Hello,   World!!  ") is "hello world".
C25_CleanQueryNormalizes ==
    \A k \in ApplicationsOf("clean_query") :
      LET out == results[k].value.val IN
        /\ \A i \in 1..Len(out) :
             \/ IsWordChar(out[i]) /\ LowerChar(out[i]) = out[i]
             \/ /\ out[i] = " "
                /\ i > 1 /\ i < Len(out)
                /\ out[i + 1] # " "
        /\ results[k].arg.val = ExampleQuery =>
             out = <<"h", "e", "l", "l", "o", " ", "w", "o", "r", "l", "d">>

\* clean_query has returned for the example query
C25_Witness ==
    \E k \in ApplicationsOf("clean_query") :
      /\ results[k].arg.val = ExampleQuery
      /\ Len(results[k].value.val) = 11

\* the requests created for tool t on the shared manager
CreatedFor(t) == {r \in DOMAIN requests : requests[r].tool_name = t}

\* C26: get_request_status(t) is None exactly when no request was ever
\* created for t on the manager, and otherwise the current status of the
\* request stored for t, the one created last.
C26_StatusOfStoredRequest ==
    batch = "none" =>
      \A t \in ToolNames :
        IF CreatedFor(t) = {}
        THEN get_request_status(0, t) = None
        ELSE LET last == CHOOSE r \in CreatedFor(t) : \A q \in CreatedFor(t) : q <= r
             IN get_request_status(0, t) = requests[last].status

\* two requests were created for one tool and the stored one is decided,
\* while another tool has none
C26_Witness ==
    /\ batch = "none"
    /\ Cardinality(CreatedFor("scrape_website")) = 2
    /\ get_request_status(0, "scrape_website") = REJECTED
    /\ get_request_status(0, "web_scraper") = None

\* the model tasks that have ended
EndedModelTask(i) ==
    /\ Truthy(tasks[i], "is_model_task")
    /\ "model_name" \in DOMAIN tasks[i]
    /\ "prompt" \in DOMAIN tasks[i]
    /\ pc[i] = "done"

\* C27: a model task whose model has no entry in the model configuration
\* raises ValueError and the model collaborator is not called for it; a
\* model task whose model is configured has called the collaborator with
\* the parameters of that entry.
C27_ModelResolvedFromConfiguration ==
    \A i \in Threads :
      EndedModelTask(i) =>
        IF tasks[i].model_name \notin DOMAIN model_config.models
        THEN /\ outcome[i] = Exc("ValueError",
                   <<"Model ", tasks[i].model_name, " not found in configuration.">>)
             /\ \A c \in model_calls : c.thread # i
        ELSE \E c \in model_calls :
               /\ c.thread = i
               /\ c.model = tasks[i].model_name
               /\ c.prompt = tasks[i].prompt
               /\ c.parameters = model_config.models[tasks[i].model_name]

\* one model task failed for its unknown model, another reached the model
C27_Witness ==
    \E i, j \in Threads :
      /\ EndedModelTask(i) /\ EndedModelTask(j)
      /\ tasks[i].model_name \notin DOMAIN model_config.models
      /\ \E c \in model_calls : c.thread = j

\* C28: the parameters a tool task hands to call_tool_with_approval are
\* validate_parameters of the parameters the caller supplied, and the
\* approval request and the collaborator of that call get those parameters.
C28_ToolParamsAreSanitized ==
    /\ [][\A i \in Threads :
            (/\ pc[i] = "queued"
             /\ call'[i].op = "call_tool_with_approval") =>
              call'[i].params = validate_parameters(tasks[i].params)]_vars
    /\ [](\A i \in Threads :
            request[i] # NoRequest =>
              requests[request[i]].params = call[i].params)
    /\ [](\A c \in tool_calls : c.params = call[c.thread].params)

\* the collaborator was invoked with parameters that the cleaning changed:
\* the url "a/b" became "ab" and the depth "3" became 3
C28_Witness ==
    \E c \in tool_calls :
      c.params = DictV([url |-> StrV(<<"a", "b">>), max_depth |-> IntV(3)])

\* the rules of C29 relating a dictionary a to the dictionary b returned for it
RECURSIVE RuleHolds(_, _)
RuleHolds(a, b) ==
    /\ b.type = "dict"
    /\ DOMAIN b.val = DOMAIN a.val
    /\ \A k \in DOMAIN a.val :
         LET v == a.val[k]
             w == b.val[k]
         IN CASE v.type = "str" /\ IsDigit(v.val) -> w = IntV(ParseInt(v.val))
              [] v.type = "str" /\ ~IsDigit(v.val) -> w = StrV(clean_text(v.val))
              [] v.type = "dict" -> RuleHolds(v, w)
              [] v.type = "list" ->
                   /\ w.type = "list"
                   /\ Len(w.val) = Len(v.val)
                   /\ \A i \in 1..Len(v.val) :
                        CASE v.val[i].type = "dict" -> RuleHolds(v.val[i], w.val[i])
                          [] v.val[i].type = "str" ->
                               w.val[i] = StrV(clean_text(v.val[i].val))
                          [] OTHER -> w.val[i] = v.val[i]
              [] OTHER -> w = v

\* what validate_parameters returned for a dictionary follows the rules
ReturnsFollowRules ==
    \A k \in ApplicationsOf("validate_parameters") :
      RuleHolds(results[k].arg, results[k].value)

\* C29: validate_parameters turns every string of digits that is a value of
\* the object into the integer it denotes, every other such string into
\* clean_text of it, recurses into the objects of an array, cleans the
\* strings of an array and leaves every other value as it is.
C29_ValidateParametersFollowsRules ==
    batch = "preprocessing" =>
      /\ ReturnsFollowRules
      /\ outcome[1] # Exc("ValueError", <<"validate_parameters">>)

\* the gate calls that created an approval request
Requesting == {i \in Threads : request[i] # NoRequest}

\* C31: every gate call of a tool that needs approval gets a decision of
\* its own: its request is stored in a manager no other call uses, the
\* collaborator runs for it only after its own prompt was answered 'y', and
\* there are as many prompts as gate calls that passed validation.
C31_EachGatedCallHasOwnDecision ==
    /\ \A i, j \in Requesting : i # j => request[i] # request[j]
    /\ \A i \in Requesting :
         /\ call[i].mgr = i
         /\ pending_approvals[i] = (call[i].tool_name :> request[i])
    /\ \A c \in tool_calls :
         is_approval_required(c.tool) =>
           /\ request[c.thread] \in prompted
           /\ answer[c.thread]
           /\ requests[request[c.thread]].status = APPROVED
    /\ prompted = {request[i] : i \in {j \in Requesting : pc[j] # "prompt"}}
    /\ Cardinality(prompted) = Cardinality({j \in Requesting : pc[j] # "prompt"})

\* two calls of one tool ran side by side; one was approved and reached the
\* collaborator, the other was rejected
C31_Witness ==
    \E i, j \in Threads :
      /\ i # j
      /\ call[i].op = "call_tool_with_approval"
      /\ call[j].op = "call_tool_with_approval"
      /\ call[i].tool_name = call[j].tool_name
      /\ \E c \in tool_calls : c.thread = i
      /\ i \in Requesting
      /\ requests[request[i]].status = APPROVED
      /\ outcome[j] = Ret(ErrorEnvelope(NotApprovedMessage(call[j].tool_name)))

\* C32: process_tasks returns or raises for every batch, also for one with
\* more gated tasks than the pool has workers, when every prompt is
\* eventually answered 'y' or 'n' and every collaborator call ends.
C32_BatchTerminates == <>(batch \in {"returned", "raised"})

\* a batch of gated tasks only, one more than the pool has workers, has
\* returned its results after a task waited for a worker and every task
\* was asked for approval
C32_Witness ==
    /\ batch = "returned"
    /\ Len(tasks) > max_workers
    /\ \A i \in Threads :
         call[i].op = "call_tool_with_approval" /\ request[i] \in prompted

\* C33: get_user_approval leaves its loop exactly when the line it read is
\* 'y' or 'n' in either case, and then returns whether it is 'y'; after any
\* other line it asks again and no request changes, so a request is Pending
\* until its call has read a valid answer.
C33_PromptsUntilValidAnswer ==
    /\ [][\A i \in Threads :
            (pc[i] = "input" /\ pc'[i] # "input") =>
              /\ pc'[i] = "decide" <=> typed'[i] \in {"y", "Y", "n", "N"}
              /\ pc'[i] = "decide" => answer'[i] = (typed'[i] \in {"y", "Y"})
              /\ pc'[i] # "decide" => pc'[i] = "retry" /\ requests' = requests]_vars
    /\ [][\A i \in Threads :
            (pc[i] = "retry" /\ pc'[i] # "retry") => pc'[i] = "input"]_vars
    /\ [](\A i \in Threads :
            pc[i] \in {"prompt", "input", "retry"} =>
              requests[request[i]].status = PENDING)

\* one call has read 'yes' and its request is still Pending, another has
\* read 'Y' and its request is Approved
C33_Witness ==
    \E i, j \in Requesting :
      /\ pc[i] = "retry"
      /\ typed[i] = "yes"
      /\ requests[request[i]].status = PENDING
      /\ typed[j] = "Y"
      /\ requests[request[j]].status = APPROVED

\* C34: on the shared manager a tool name has one stored request, the one
\* stored last; request_approval replaces what was stored for its tool and
\* nothing else; get_request_status gives the stored request's status; no
\* entry is ever removed.
C34_OneStoredRequestPerTool ==
    /\ [](batch = "none" =>
            \A t \in DOMAIN pending_approvals[0] :
              /\ CreatedFor(t) # {}
              /\ pending_approvals[0][t] \in CreatedFor(t)
              /\ \A q \in CreatedFor(t) : q <= pending_approvals[0][t]
              /\ get_request_status(0, t) = requests[pending_approvals[0][t]].status
              /\ get_request_status(0, t) # None)
    /\ [][batch = "none" =>
            \A i \in Threads :
              (pc[i] = "request_approval" /\ pc'[i] = "prompt") =>
                /\ DOMAIN pending_approvals'[0] =
                     DOMAIN pending_approvals[0] \cup {call[i].tool_name}
                /\ pending_approvals'[0][call[i].tool_name] = Len(requests) + 1
                /\ \A t \in DOMAIN pending_approvals[0] \ {call[i].tool_name} :
                     pending_approvals'[0][t] = pending_approvals[0][t]]_vars
    /\ [][batch = "none" =>
            DOMAIN pending_approvals[0] \subseteq DOMAIN pending_approvals'[0]]_vars

\* a second request for a tool took the place of the first before the
\* first was decided
C34_Witness ==
    /\ batch = "none"
    /\ Len(requests) = 2
    /\ requests[1].tool_name = requests[2].tool_name
    /\ requests[1].status = PENDING
    /\ pending_approvals[0] = (requests[2].tool_name :> 2)

\* the gate calls of a configured tool that needs no approval
Ungated(i) ==
    /\ call[i].op = "call_tool_with_approval"
    /\ ~NotToolInfo(call[i].tool_name)
    /\ ~is_approval_required(call[i].tool_name)

\* C35: a gate call of a tool whose entry does not require approval creates
\* no approval request and is never refused for its parameters; when the
\* tool has a collaborator that accepts the parameter names, the call ends
\* with the collaborator invoked on the parameters, whether they fit the
\* tool's schema or not.
C35_UngatedToolSkipsValidation ==
    \A i \in Threads :
      Ungated(i) =>
        /\ request[i] = NoRequest
        /\ pc[i] \in {"execute", "done"}
        /\ outcome[i] # InvalidParameters(call[i].tool_name)
        /\ (/\ pc[i] = "done"
            /\ call[i].tool_name \in Collaborators
            /\ ~BindRaises(call[i].tool_name, call[i].params)) =>
              \E c \in tool_calls :
                /\ c.thread = i
                /\ c.tool = call[i].tool_name
                /\ c.params = call[i].params

\* the collaborator of a tool that needs no approval was invoked with
\* parameters its schema does not allow
C35_Witness ==
    \E i \in Threads :
      /\ Ungated(i)
      /\ ~validate_params(call[i].tool_name, call[i].params)
      /\ \E c \in tool_calls : c.thread = i /\ c.params = call[i].params

\* the tasks that raised inside run_agent_task
RaisedTasks == {k \in Threads : pc[k] = "done" /\ outcome[k].kind = "raise"}

\* C36: a batch in which a task raised never returns a result list; the
\* exception leaves process_tasks only when every task that had started has
\* ended, so a started sibling that needed approval was prompted and, when
\* approved, reached its collaborator; afterwards nothing changes.
C36_BatchRaisesAfterSiblingsEnd ==
    /\ [](batch = "returned" => RaisedTasks = {})
    /\ [](batch = "raised" =>
            \A j \in Threads :
              /\ pc[j] \in {"queued", "done", "cancelled"}
              /\ pc[j] = "done" => outcome[j] # NoOutcome
              /\ (pc[j] = "done" /\ request[j] # NoRequest) =>
                   /\ request[j] \in prompted
                   /\ (/\ requests[request[j]].status = APPROVED
                       /\ call[j].tool_name \in Collaborators
                       /\ ~BindRaises(call[j].tool_name, call[j].params)) =>
                         \E c \in tool_calls : c.thread = j)
    /\ [][batch = "raised" => UNCHANGED vars]_vars

\* the first task raised while the second was running; the batch raised
\* after the second had been prompted and had invoked its collaborator
C36_Witness ==
    /\ batch = "raised"
    /\ 1 \in RaisedTasks
    /\ Len(completed) = 2
    /\ completed[1] = 1
    /\ request[2] \in prompted
    /\ \E c \in tool_calls : c.thread = 2

\* C37: what clean_text returns has no two whitespace characters in a row,
\* and clean_text applied to it returns it unchanged.
C37_CleanTextIdempotent ==
    \A k \in ApplicationsOf("clean_text") :
      LET out == results[k].value.val IN
        /\ \A i \in 1..(Len(out) - 1) :
             ~(IsSpaceChar(out[i]) /\ IsSpaceChar(out[i + 1]))
        /\ (k + 1) \in ApplicationsOf("clean_text") =>
             results[k + 1].value = results[k].value

\* what a step leaves alone when it decides the request stored under t
OnlyStatusOf(t) ==
    /\ pending_approvals' = pending_approvals
    /\ DOMAIN requests' = DOMAIN requests
    /\ \A r \in DOMAIN requests :
         IF r = Lookup(0, t)
         THEN /\ requests'[r].tool_name = requests[r].tool_name
              /\ requests'[r].params = requests[r].params
              /\ requests'[r].description = requests[r].description
         ELSE requests'[r] = requests[r]

\* C38: approve_request(t) and reject_request(t) change the status of the
\* request stored under t and nothing else: not the keys of
\* pending_approvals, not any other request, not the tool_name, params and
\* description of that request.
C38_DecisionChangesOnlyStatus ==
    [][\A t \in ClientTools :
         /\ ApproveRequest(t) =>
              /\ OnlyStatusOf(t)
              /\ Lookup(0, t) # NoRequest =>
                   requests'[Lookup(0, t)].status = APPROVED
         /\ RejectRequest(t) =>
              /\ OnlyStatusOf(t)
              /\ Lookup(0, t) # NoRequest =>
                   requests'[Lookup(0, t)].status = REJECTED]_vars

\* approve_request was called while two requests were waiting for their
\* answers: the stored one is Approved, the other one still Pending
C38_Witness ==
    /\ batch = "none"
    /\ last_op = [op |-> "approve_request", outcome |-> Ret(None)]
    /\ \A i \in Threads : pc[i] \in {"prompt", "input", "retry"}
    /\ Len(requests) = 2
    /\ \E r, q \in DOMAIN requests :
         /\ requests[r].status = APPROVED
         /\ requests[q].status = PENDING

====
